---------------------------- MODULE Spec2Model ----------------------------
(***************************************************************************)
(* Focus peaking overlay: the frame processor (services/focusPeaking.ts,   *)
(* three variants kept in the repository: outline, dotted, web worker) and *)
(* the canvases it draws on.                                               *)
(*                                                                         *)
(* An image is a record [width, height, data]; data is the flat RGBA byte  *)
(* array of the DOM's ImageData, indexed from 0: the pixel (x, y) has its  *)
(* channels at (y * width + x) * 4 + {0, 1, 2, 3}.                         *)
(***************************************************************************)
EXTENDS Integers, Sequences, FiniteSets, TLC

(***************************************************************************)
(* Bounds of the model.                                                    *)
(***************************************************************************)
\* widest and tallest decoded frame
MaxWidth == 5
\* messages between the page and the worker that may be in flight at once
MaxInFlight == 2
\* how many times in a row the same call is repeated on the same frame
MaxRepeat == 1
\* the count of reported context failures is kept up to this number
MaxReported == 2
\* longest colour string made up character by character
MaxColorLen == 7
\* width and height of the square test frames
SceneSize == 64

(***************************************************************************)
(* Small helpers.                                                          *)
(***************************************************************************)
Abs(a) == IF a < 0 THEN 0 - a ELSE a

\* new ImageData(w, h) / a canvas bitmap after a resize or a full clearRect:
\* every byte 0 (transparent black)
Blank(w, h) == [i \in 0..(4 * w * h - 1) |-> 0]

(***************************************************************************)
(* Colour strings are sequences of characters.                             *)
(***************************************************************************)
HexDigits ==
    {"0","1","2","3","4","5","6","7","8","9",
     "a","b","c","d","e","f","A","B","C","D","E","F"}

HexVal(c) ==
    CASE c = "0" -> 0 [] c = "1" -> 1 [] c = "2" -> 2 [] c = "3" -> 3
      [] c = "4" -> 4 [] c = "5" -> 5 [] c = "6" -> 6 [] c = "7" -> 7
      [] c = "8" -> 8 [] c = "9" -> 9
      [] c \in {"a", "A"} -> 10 [] c \in {"b", "B"} -> 11
      [] c \in {"c", "C"} -> 12 [] c \in {"d", "D"} -> 13
      [] c \in {"e", "E"} -> 14 [] c \in {"f", "F"} -> 15

\* /^#?([a-f\d]{2})([a-f\d]{2})([a-f\d]{2})$/i.exec(hex): the six hex digits
\* matched, or << >> when the string does not match
HexMatch(hex) ==
    LET body == IF Len(hex) > 0 /\ hex[1] = "#" THEN Tail(hex) ELSE hex
    IN  IF Len(body) = 6 /\ \A k \in 1..6 : body[k] \in HexDigits
        THEN body ELSE << >>

\* parseInt(result[n], 16) of the n-th pair
ParsePair(m, n) == 16 * HexVal(m[2 * n - 1]) + HexVal(m[2 * n])

\* outline variant: default to red if parsing fails
hexToRgb(hex) ==
    LET m == HexMatch(hex)
    IN  IF m # << >>
        THEN [r |-> ParsePair(m, 1), g |-> ParsePair(m, 2), b |-> ParsePair(m, 3)]
        ELSE [r |-> 255, g |-> 0, b |-> 0]

(***************************************************************************)
(* Pixel arithmetic of the outline variant.                                *)
(***************************************************************************)
\* Math.round(r * 0.299 + g * 0.587 + b * 0.114) stored in a Uint8Array
Luma(r, g, b) == ((299 * r + 587 * g + 114 * b + 500) \div 1000) % 256

\* Step 1: convert to grayscale, one value per pixel
grayscale(data, width, height) ==
    [k \in 0..(width * height - 1) |->
        Luma(data[4 * k], data[4 * k + 1], data[4 * k + 2])]

\* faulty variant: the neighbours to the left and above are not subtracted
EdgeSqNoSubtract(gray, width, x, y) ==
    LET bottom == gray[(y + 1) * width + x]
        right  == gray[y * width + (x + 1)]
    IN  right * right + bottom * bottom

\* faulty variant: forward differences, from the pixel itself to its right and lower
\* neighbours
EdgeSqForward(gray, width, x, y) ==
    LET centre == gray[y * width + x]
        bottom == gray[(y + 1) * width + x]
        right  == gray[y * width + (x + 1)]
        gx     == Abs(right - centre)
        gy     == Abs(bottom - centre)
    IN  gx * gx + gy * gy

\* gx * gx + gy * gy at (x, y): the square of edgeResponse
EdgeSq(gray, width, x, y) ==
    LET top    == gray[(y - 1) * width + x]
        bottom == gray[(y + 1) * width + x]
        left   == gray[y * width + (x - 1)]
        right  == gray[y * width + (x + 1)]
        gx     == Abs(right - left)
        gy     == Abs(bottom - top)
    IN  gx * gx + gy * gy

\* faulty variant: a response equal to the threshold counts as an edge
IsEdgeInclusive(sq, threshold) == threshold < 0 \/ sq >= threshold * threshold

\* edgeResponse > threshold, with edgeResponse = Math.sqrt(sq)
IsEdge(sq, threshold) == threshold < 0 \/ sq > threshold * threshold

\* Math.min(255, edgeStrength * intensity) >= q / 2 and > q / 2, for an odd
\* q in 1..509, with edgeStrength = Math.min(255, (edgeResponse - threshold) * 2),
\* edgeResponse = Math.sqrt(sq) and intensity = pct / 100, pct > 0
AlphaGE(sq, threshold, pct, q) ==
    LET c == pct * threshold + 25 * q
    IN  255 * pct >= 50 * q /\ (c <= 0 \/ pct * pct * sq >= c * c)

AlphaGT(sq, threshold, pct, q) ==
    LET c == pct * threshold + 25 * q
    IN  255 * pct > 50 * q /\ (c < 0 \/ pct * pct * sq > c * c)

\* the byte a Uint8ClampedArray keeps of Math.min(255, edgeStrength * intensity):
\* clamped to 0..255 and rounded to the nearest integer, ties to even
RECURSIVE AlphaAbove(_, _, _, _, _)
\* how many k in lo+1..hi have the value above k - 1/2 (they form a prefix:
\* the value is above k - 1/2 for every k up to lo and for none beyond hi)
AlphaAbove(sq, threshold, pct, lo, hi) ==
    IF lo = hi THEN lo
    ELSE LET mid == (lo + hi + 1) \div 2
         IN  IF AlphaGT(sq, threshold, pct, 2 * mid - 1)
             THEN AlphaAbove(sq, threshold, pct, mid, hi)
             ELSE AlphaAbove(sq, threshold, pct, lo, mid - 1)

\* faulty variant: the alpha is cut off to an integer instead of rounded
AlphaOfFloor(sq, threshold, pct) ==
    IF pct <= 0 THEN 0
    ELSE Cardinality({k \in 1..255 : AlphaGE(sq, threshold, pct, 2 * k)})

AlphaOf(sq, threshold, pct) ==
    IF pct <= 0 THEN 0
    ELSE LET n == AlphaAbove(sq, threshold, pct, 0, 255)
         IN  IF n < 255 /\ (n + 1) % 2 = 0 /\ AlphaGE(sq, threshold, pct, 2 * n + 1)
             THEN n + 1 ELSE n

\* faulty variant: the threshold is read as a sensitivity (a higher value marks more
\* pixels): the loop compares with 60 - threshold
outlineDataSensitivity(data, width, height, colorRgb, threshold, pct) ==
    LET gray == grayscale(data, width, height)
    IN  [i \in 0..(4 * width * height - 1) |->
            LET x == (i \div 4) % width
                y == (i \div 4) \div width
            IN  IF x >= 1 /\ x < width - 1 /\ y >= 1 /\ y < height - 1
                   /\ IsEdge(EdgeSq(gray, width, x, y), 60 - threshold)
                THEN CASE i % 4 = 0 -> colorRgb.r
                       [] i % 4 = 1 -> colorRgb.g
                       [] i % 4 = 2 -> colorRgb.b
                       [] OTHER -> AlphaOf(EdgeSq(gray, width, x, y), 60 - threshold, pct)
                ELSE 0]

\* the outline ImageData after the edge loop: interior edge pixels carry the
\* highlight colour and the computed alpha, every other byte stays 0
outlineData(data, width, height, colorRgb, threshold, pct) ==
    LET gray == grayscale(data, width, height)
    IN  [i \in 0..(4 * width * height - 1) |->
            LET x == (i \div 4) % width
                y == (i \div 4) \div width
            IN  IF x >= 1 /\ x < width - 1 /\ y >= 1 /\ y < height - 1
                   /\ IsEdge(EdgeSq(gray, width, x, y), threshold)
                THEN CASE i % 4 = 0 -> colorRgb.r
                       [] i % 4 = 1 -> colorRgb.g
                       [] i % 4 = 2 -> colorRgb.b
                       [] OTHER -> AlphaOf(EdgeSq(gray, width, x, y), threshold, pct)
                ELSE 0]

(***************************************************************************)
(* Decoded frames: a few patterns at every size the model allows.          *)
(***************************************************************************)
Gray(v) == <<v, v, v, 255>>

\* the RGBA pixel of pattern pat at (x, y); video frames are opaque
PixelAt(pat, x, y) ==
    CASE pat = "white" -> Gray(255)
      [] pat = "vline" -> IF x = 2 THEN Gray(255) ELSE Gray(0)
      [] pat = "ramp"  -> Gray(15 * x + 20 * y)
      [] pat = "soft"  -> Gray(100 + 5 * x)
      [] pat = "black" -> Gray(0)
      [] pat = "grey"  -> Gray(128)
      [] pat = "red"   -> <<255, 0, 0, 255>>
      [] pat = "line32" -> IF x = 32 THEN Gray(255) ELSE Gray(0)
      [] OTHER         -> CASE x % 3 = 0 -> <<255, 0, 0, 255>>
                            [] x % 3 = 1 -> <<0, 255, 0, 255>>
                            [] OTHER     -> <<0, 0, 255, 255>>

Patterns == {"white", "vline", "ramp", "rgb"}

FrameData(pat, w, h) ==
    [i \in 0..(4 * w * h - 1) |->
        PixelAt(pat, (i \div 4) % w, (i \div 4) \div w)[(i % 4) + 1]]

\* a video element reports 0 x 0 until it has metadata (and for a file
\* without a video track)
Dims == {<<0, 0>>, <<2, 2>>} \cup ((3..MaxWidth) \X {3})

Frames ==
    {[videoWidth |-> d[1], videoHeight |-> d[2], data |-> FrameData(pat, d[1], d[2])] :
        d \in Dims, pat \in Patterns}

(***************************************************************************)
(* Arguments of processFrame.                                              *)
(***************************************************************************)
Chars(str) ==
    CASE str = "#FF4A4A" -> <<"#", "F", "F", "4", "A", "4", "A">>
      [] str = "#4AFF4A" -> <<"#", "4", "A", "F", "F", "4", "A">>
      [] str = "00ff00" -> <<"0", "0", "f", "f", "0", "0">>
      [] str = "#FFF" -> <<"#", "F", "F", "F">>
      [] OTHER -> <<"n", "o", "t", "-", "a", "-", "c", "o", "l", "o", "r">>

Colors == {"#FF4A4A", "not-a-color"}
Thresholds == {10, 50}
Percents == {50, 100}
Modes == {"highlight", "outline", "contrast"}

Instances == {1, 2}

VARIABLES
    mounted,          \* the video instances (players) that exist
    video,            \* per instance: the video element's videoWidth, videoHeight, current frame
    canvas,           \* per instance: the overlay canvas: width, height, bitmap, ctx
    docCtx,           \* whether a canvas made by document.createElement yields a 2d context
    call,             \* per instance: the processFrame call that last returned on the current frame
    lastVideoWidth,   \* module scope
    lastVideoHeight,  \* module scope
    worker,           \* module scope: the worker and what its handlers captured
    workerOk,         \* whether new Worker(...) succeeds in this browser
    inbox,            \* messages posted to the worker, not yet handled by it
    outbox,           \* results the worker posted, not yet delivered to onmessage
    reported,         \* how often processFrame has reported a missing context (console.error)
    cfg,              \* per player: enabled, color, threshold, intensity, mode (React state)
    ready,            \* per player: video.readyState >= 2
    raf,              \* per player: the animation-frame callbacks requested and not yet run
    animationRef,     \* per player: animationRef.current, 0 for null
    lastTick,         \* per player: how the callback that ran last ended
    audio,            \* per player: volume and isMuted (React state), the element's volume and muted
    index,            \* the index page: isLoading, how the fetch ended, the error toasts raised
    probe             \* the arguments and the result of a function applied on its own

vars == <<mounted, video, canvas, docCtx, call, lastVideoWidth, lastVideoHeight,
          worker, workerOk, inbox, outbox, reported, cfg, ready, raf,
          animationRef, lastTick, audio, index, probe>>

\* what the player component alone changes
playerVars == <<cfg, ready, raf, animationRef, lastTick>>

\* what the volume controls and the index page alone change
uiVars == <<audio, index>>

\* what the worker variant alone changes
workerVars == <<worker, workerOk, inbox, outbox>>

NoWorker == [created |-> FALSE]

NoCall == [status |-> "none"]

\* a canvas element as the page creates it (300 x 150 in the DOM, scaled to
\* 2 x 1 here), transparent
NewCanvas(ctx) == [width |-> 2, height |-> 1, data |-> Blank(2, 1), ctx |-> ctx]

NoVideo == [videoWidth |-> 0, videoHeight |-> 0, data |-> Blank(0, 0)]

\* the player's focus peaking settings as useState initialises them
\* (intensity 80 is passed on as 80 / 100)
InitialCfg ==
    [color |-> "#FF4A4A", threshold |-> 25, enabled |-> TRUE, pct |-> 80,
     mode |-> "highlight"]

NoProbe == [fn |-> "none"]

\* volumes are held times 100: useState(1), useState(false), and a video
\* element's defaults
InitialAudio == [volume |-> 100, isMuted |-> FALSE, elVolume |-> 100, elMuted |-> FALSE]

\* the index page before its fetch has settled: useState(true)
InitialIndex == [isLoading |-> TRUE, fetch |-> "pending", toasts |-> 0]

\* faulty variant: the catch handler leaves isLoading as it is
fetchCaughtNoReset(ix, how) == [ix EXCEPT !.fetch = how, !.toasts = @ + 1]

\* .then(response => ...) on an ok response
fetchThen(ix) == [ix EXCEPT !.fetch = "ok", !.isLoading = FALSE]

\* .catch(error => ...): toast.error, setIsLoading(false); how is "notok"
\* (the then handler threw) or "failed" (the fetch was rejected)
fetchCaught(ix, how) == [ix EXCEPT !.fetch = how, !.toasts = @ + 1, !.isLoading = FALSE]

\* a page that calls the processor without a player component: no render
\* loop exists
NoPlayer ==
    /\ cfg = [i \in Instances |-> InitialCfg]
    /\ ready = [i \in Instances |-> FALSE]
    /\ raf = [i \in Instances |-> {}]
    /\ animationRef = [i \in Instances |-> 0]
    /\ lastTick = [i \in Instances |-> "none"]
    /\ audio = [i \in Instances |-> InitialAudio]
    /\ index = InitialIndex

Init ==
    /\ mounted = {1}
    /\ video = [i \in Instances |-> NoVideo]
    /\ \E c \in BOOLEAN : canvas = [i \in Instances |-> NewCanvas(c)]
    /\ docCtx \in BOOLEAN
    /\ call = [i \in Instances |-> NoCall]
    /\ lastVideoWidth = 0
    /\ lastVideoHeight = 0
    /\ worker = NoWorker
    /\ workerOk = TRUE
    /\ inbox = << >>
    /\ outbox = << >>
    /\ reported = 0
    /\ NoPlayer
    /\ probe = NoProbe

(***************************************************************************)
(* DOM operations the processor relies on.                                 *)
(***************************************************************************)
\* ctx.clearRect(0, 0, canvas.width, canvas.height)
clearRect(cv) == [cv EXCEPT !.data = Blank(cv.width, cv.height)]

\* canvas.width = w; canvas.height = h: the bitmap is reset
resize(cv, w, h) == [cv EXCEPT !.width = w, !.height = h, !.data = Blank(w, h)]

\* getImageData(0, 0, sw, sh) throws IndexSizeError when sw or sh is 0, and so
\* does new ImageData(sw, sh)
getImageDataThrows(sw, sh) == sw = 0 \/ sh = 0

(***************************************************************************)
(* processFrame, outline variant.  The canvas it leaves and how it ended:  *)
(* "disabled", "noctx" (console.error, return), "nooffscreen",             *)
(* "threw" (an exception leaves the function), "ok".                       *)
(***************************************************************************)
processFrameStatus(v, cv, enabled) ==
    CASE ~enabled -> "disabled"
      [] ~cv.ctx -> "noctx"
      [] ~docCtx -> "nooffscreen"
      [] getImageDataThrows(v.videoWidth, v.videoHeight) -> "threw"
      [] OTHER -> "ok"

\* console.error("Failed to get canvas context") and console.error("Failed to
\* get offscreen canvas context"): each call that ends so reports once; the
\* count stops at MaxReported
reportedAfter(status) ==
    IF status \in {"noctx", "nooffscreen"} /\ reported < MaxReported
    THEN reported + 1 ELSE reported

\* faulty variant: only the width is brought in line with the video
resizeWidthOnly(v, cv) ==
    IF cv.width # v.videoWidth \/ cv.height # v.videoHeight
    THEN resize(cv, v.videoWidth, cv.height) ELSE cv

\* Resize canvas to match video dimensions if needed
resizeIfNeeded(v, cv) ==
    IF cv.width # v.videoWidth \/ cv.height # v.videoHeight
    THEN resize(cv, v.videoWidth, v.videoHeight) ELSE cv

\* faulty variant: the disabled branch returns without clearing
processDisabledNoClear(cv) == cv

\* the disabled branch: clear the canvas when it has a context, and return
processDisabled(cv) == IF cv.ctx THEN clearRect(cv) ELSE cv

\* faulty variant: "avoid unnecessary reprocessing": the frame is processed only when
\* the canvas had to be resized
processFrameCanvasOnResize(v, cv, color, threshold, enabled, pct, mode) ==
    IF ~enabled THEN processDisabled(cv)
    ELSE LET sized == resizeIfNeeded(v, cv)
         IN  IF ~sized.ctx THEN sized
             ELSE IF ~docCtx \/ getImageDataThrows(sized.width, sized.height)
                     \/ sized = cv
                  THEN clearRect(sized)
                  ELSE [sized EXCEPT !.data =
                           outlineData(v.data, sized.width, sized.height,
                                       hexToRgb(Chars(color)), threshold, pct)]

\* faulty variant: the canvas keeps the size it has; the overlay is drawn into
\* it from the top left corner
processFrameCanvasNoResize(v, cv, color, threshold, enabled, pct, mode) ==
    IF ~enabled THEN processDisabled(cv)
    ELSE IF ~cv.ctx THEN cv
    ELSE IF ~docCtx \/ getImageDataThrows(v.videoWidth, v.videoHeight)
         THEN clearRect(cv)
         ELSE LET img == outlineData(v.data, v.videoWidth, v.videoHeight,
                                     hexToRgb(Chars(color)), threshold, pct)
              IN  [cv EXCEPT !.data =
                      [k \in DOMAIN cv.data |->
                          LET x == (k \div 4) % cv.width
                              y == (k \div 4) \div cv.width
                          IN  IF x < v.videoWidth /\ y < v.videoHeight
                              THEN img[(y * v.videoWidth + x) * 4 + (k % 4)]
                              ELSE 0]]

\* faulty variant: the contrast mode halves the threshold
processFrameCanvasByMode(v, cv, color, threshold, enabled, pct, mode) ==
    IF ~enabled THEN processDisabled(cv)
    ELSE LET sized == resizeIfNeeded(v, cv)
         IN  IF ~sized.ctx THEN sized
             ELSE IF ~docCtx \/ getImageDataThrows(sized.width, sized.height)
                  THEN clearRect(sized)
                  ELSE [sized EXCEPT !.data =
                           outlineData(v.data, sized.width, sized.height,
                                       hexToRgb(Chars(color)),
                                       IF mode = "contrast" THEN threshold \div 2
                                       ELSE threshold,
                                       pct)]

processFrameCanvas(v, cv, color, threshold, enabled, pct, mode) ==
    IF ~enabled THEN processDisabled(cv)
    ELSE LET sized == resizeIfNeeded(v, cv)
         IN  IF ~sized.ctx THEN sized
             ELSE IF ~docCtx \/ getImageDataThrows(sized.width, sized.height)
                  THEN clearRect(sized)
                  ELSE [sized EXCEPT !.data =
                           outlineData(v.data, sized.width, sized.height,
                                       hexToRgb(Chars(color)), threshold, pct)]

Args(color, threshold, enabled, pct, mode) ==
    [color |-> color, threshold |-> threshold, enabled |-> enabled,
     pct |-> pct, mode |-> mode]

\* how often in a row the call with these arguments has now been made
Repeat(c, args) ==
    IF c.status # "none" /\ c.args = args THEN c.repeat + 1 ELSE 0

processFrame(i, color, threshold, enabled, pct, mode) ==
    LET args == Args(color, threshold, enabled, pct, mode)
    IN  /\ Repeat(call[i], args) <= MaxRepeat
        /\ canvas' = [canvas EXCEPT ![i] =
               processFrameCanvas(video[i], @, color, threshold, enabled, pct, mode)]
        /\ call' = [call EXCEPT ![i] =
               [status |-> processFrameStatus(video[i], canvas[i], enabled),
                args |-> args, repeat |-> Repeat(call[i], args)]]
        /\ reported' = reportedAfter(processFrameStatus(video[i], canvas[i], enabled))
        /\ UNCHANGED <<mounted, video, docCtx, lastVideoWidth, lastVideoHeight,
                       workerVars, playerVars, probe, uiVars>>

\* a caller invokes processFrame on an instance
Call ==
    \E i \in mounted, color \in Colors, threshold \in Thresholds,
       enabled \in BOOLEAN, pct \in Percents, mode \in Modes :
        processFrame(i, color, threshold, enabled, pct, mode)

\* the video element shows another frame (playback, seek, or a new source
\* with other dimensions)
Decode ==
    \E i \in mounted, f \in Frames :
        /\ f # video[i]
        /\ video' = [video EXCEPT ![i] = f]
        /\ call' = [call EXCEPT ![i] = NoCall]
        /\ UNCHANGED <<mounted, canvas, docCtx, lastVideoWidth, lastVideoHeight,
                       workerVars, reported, playerVars, probe, uiVars>>

Next == Call \/ Decode

Spec == Init /\ [][Next]_vars

(***************************************************************************)
(* The web worker variant.                                                 *)
(***************************************************************************)
\* the worker script's hexToRgb: red when the string does not parse
hexToRgbInWorker(hex) ==
    LET m == HexMatch(hex)
    IN  IF m # << >>
        THEN [r |-> ParsePair(m, 1), g |-> ParsePair(m, 2), b |-> ParsePair(m, 3)]
        ELSE [r |-> 255, g |-> 0, b |-> 0]

\* the page's hexToRgb of this variant: #FF4A4A when the string does not parse
hexToRgbSync(hex) ==
    LET m == HexMatch(hex)
    IN  IF m # << >>
        THEN [r |-> ParsePair(m, 1), g |-> ParsePair(m, 2), b |-> ParsePair(m, 3)]
        ELSE [r |-> 255, g |-> 74, b |-> 74]

\* ctx.drawImage(videoElement, 0, 0): the (opaque) frame at its natural size,
\* clipped to the canvas; nothing is drawn while the video has no frame
drawImage(cv, v) ==
    [cv EXCEPT !.data =
        [k \in DOMAIN cv.data |->
            LET x == (k \div 4) % cv.width
                y == (k \div 4) \div cv.width
            IN  IF x < v.videoWidth /\ y < v.videoHeight
                THEN v.data[(y * v.videoWidth + x) * 4 + (k % 4)]
                ELSE cv.data[k]]]

\* ctx.putImageData(img, 0, 0): the image replaces the canvas pixels it
\* covers; a pixel of alpha 0 is kept as transparent black
putImageData(cv, img) ==
    [cv EXCEPT !.data =
        [k \in DOMAIN cv.data |->
            LET x == (k \div 4) % cv.width
                y == (k \div 4) \div cv.width
                p == (y * img.width + x) * 4
            IN  IF x < img.width /\ y < img.height
                THEN IF img.data[p + 3] = 0 THEN 0 ELSE img.data[p + (k % 4)]
                ELSE cv.data[k]]]

\* ctx.getImageData(0, 0, canvas.width, canvas.height)
getImageData(cv) == [width |-> cv.width, height |-> cv.height, data |-> cv.data]

\* a * a for 0 <= a < 2000000, as <<hi, lo>> with a * a = hi * 1000000 + lo
BigSq(a) ==
    LET a1  == a \div 1000
        a0  == a % 1000
        m   == 2 * a1 * a0
        raw == (m % 1000) * 1000 + a0 * a0
    IN  <<a1 * a1 + m \div 1000 + raw \div 1000000, raw % 1000000>>

BigAdd(p, q) ==
    <<p[1] + q[1] + (p[2] + q[2]) \div 1000000, (p[2] + q[2]) % 1000000>>

BigGT(p, q) == p[1] > q[1] \/ (p[1] = q[1] /\ p[2] > q[2])

\* the Sobel sums gx and gy of the eight neighbours' gray values
SobelGx(tl, t, tr, l, r, bl, b, br) == 0 - tl - 2 * l - bl + tr + 2 * r + br

SobelGy(tl, t, tr, l, r, bl, b, br) == 0 - tl - 2 * t - tr + bl + 2 * b + br

\* Math.sqrt(gx * gx + gy * gy) > threshold, gx and gy given times 'scale'
SobelAbove(gx, gy, threshold, scale) ==
    \/ threshold < 0
    \/ BigGT(BigAdd(BigSq(Abs(gx)), BigSq(Abs(gy))), BigSq(scale * threshold))

\* the worker: whether (x, y), an interior pixel, is an edge; the gray
\* values are the rounded ones of its Uint8Array
workerEdge(data, width, x, y, threshold) ==
    LET g(yy, xx) == Luma(data[(yy * width + xx) * 4],
                          data[(yy * width + xx) * 4 + 1],
                          data[(yy * width + xx) * 4 + 2])
        gx == SobelGx(g(y-1, x-1), g(y-1, x), g(y-1, x+1), g(y, x-1), g(y, x+1),
                      g(y+1, x-1), g(y+1, x), g(y+1, x+1))
        gy == SobelGy(g(y-1, x-1), g(y-1, x), g(y-1, x+1), g(y, x-1), g(y, x+1),
                      g(y+1, x-1), g(y+1, x), g(y+1, x+1))
    IN  SobelAbove(gx, gy, threshold, 1)

\* the worker's applyFocusPeaking(imageData, threshold, colorHex)
applyFocusPeaking(imageData, threshold, colorHex) ==
    LET width  == imageData.width
        height == imageData.height
        data   == imageData.data
        highlightColor == hexToRgbInWorker(Chars(colorHex))
    IN  [width |-> width, height |-> height, data |->
            [k \in 0..(4 * width * height - 1) |->
                LET x == (k \div 4) % width
                    y == (k \div 4) \div width
                IN  IF x >= 1 /\ x < width - 1 /\ y >= 1 /\ y < height - 1
                    THEN IF workerEdge(data, width, x, y, threshold)
                         THEN CASE k % 4 = 0 -> highlightColor.r
                                [] k % 4 = 1 -> highlightColor.g
                                [] k % 4 = 2 -> highlightColor.b
                                [] OTHER -> 255
                         ELSE IF k % 4 = 3 THEN 0 ELSE data[k]
                    ELSE 0]]

\* getGrayscale(data, width, y, x), times 1000: the value is not rounded
getGrayscale(data, width, y, x) ==
    LET idx == (y * width + x) * 4
    IN  299 * data[idx] + 587 * data[idx + 1] + 114 * data[idx + 2]

\* processSynchronously: whether (x, y), an interior pixel, is an edge
syncEdge(data, width, x, y, threshold) ==
    LET g(yy, xx) == getGrayscale(data, width, yy, xx)
        gx == SobelGx(g(y-1, x-1), g(y-1, x), g(y-1, x+1), g(y, x-1), g(y, x+1),
                      g(y+1, x-1), g(y+1, x), g(y+1, x+1))
        gy == SobelGy(g(y-1, x-1), g(y-1, x), g(y-1, x+1), g(y, x-1), g(y, x+1),
                      g(y+1, x-1), g(y+1, x), g(y+1, x+1))
    IN  SobelAbove(gx, gy, threshold, 1000)

\* the image processSynchronously puts back: an interior edge pixel takes the
\* highlight colour and keeps its alpha, an interior non-edge pixel gets
\* alpha 0, a border pixel is left as read
syncImage(img, color, threshold) ==
    LET colorRgb == hexToRgbSync(Chars(color))
    IN  [img EXCEPT !.data =
            [k \in DOMAIN img.data |->
                LET x == (k \div 4) % img.width
                    y == (k \div 4) \div img.width
                IN  IF x >= 1 /\ x < img.width - 1 /\ y >= 1 /\ y < img.height - 1
                    THEN IF syncEdge(img.data, img.width, x, y, threshold)
                         THEN CASE k % 4 = 0 -> colorRgb.r
                                [] k % 4 = 1 -> colorRgb.g
                                [] k % 4 = 2 -> colorRgb.b
                                [] OTHER -> img.data[k]
                         ELSE IF k % 4 = 3 THEN 0 ELSE img.data[k]
                    ELSE img.data[k]]]

\* processSynchronously(ctx, videoElement, color, threshold) on ctx's canvas:
\* the canvas it leaves (when getImageData throws, the frame just drawn)
processSynchronously(cv, v, color, threshold) ==
    LET drawn == drawImage(cv, v)
    IN  IF getImageDataThrows(drawn.width, drawn.height) THEN drawn
        ELSE putImageData(drawn, syncImage(getImageData(drawn), color, threshold))

\* what the worker variant is called with and the frames it is shown
WorkerColors == {"#FF4A4A"}
WorkerPatterns == {"white", "soft"}

WorkerFrames ==
    {[videoWidth |-> 3, videoHeight |-> 3, data |-> FrameData(pat, 3, 3)] :
        pat \in WorkerPatterns}

InitWorker ==
    /\ mounted = Instances
    /\ video = [i \in Instances |-> NoVideo]
    /\ canvas = [i \in Instances |-> NewCanvas(TRUE)]
    /\ docCtx = TRUE
    /\ call = [i \in Instances |-> NoCall]
    /\ lastVideoWidth = 0
    /\ lastVideoHeight = 0
    /\ worker = NoWorker
    /\ workerOk \in BOOLEAN
    /\ inbox = << >>
    /\ outbox = << >>
    /\ reported = 0
    /\ NoPlayer
    /\ probe = NoProbe

\* the messages and results in flight
InFlight == Len(inbox) + Len(outbox)

\* how the call ends: "disabled", "noctx", "sync" (the fallback ran because no
\* worker could be made), "threw" (getImageData threw in the try block and
\* again in the fallback of the catch block), "posted"
processFrameWorkerStatus(v, cv, enabled) ==
    CASE ~enabled -> "disabled"
      [] ~cv.ctx -> "noctx"
      [] getImageDataThrows(v.videoWidth, v.videoHeight) -> "threw"
      [] ~worker.created /\ ~workerOk -> "sync"
      [] OTHER -> "posted"

\* worker = new Worker(...); worker.onmessage = ...; worker.onerror = ...:
\* the handlers keep the ctx, videoElement, color and threshold of this call
createWorker(i, color, threshold) ==
    [created |-> TRUE, canvas |-> i, video |-> i,
     color |-> color, threshold |-> threshold]

processFrameWorker(i, color, threshold, enabled) ==
    LET v      == video[i]
        cv     == canvas[i]
        sized  == resizeIfNeeded(v, cv)
        status == processFrameWorkerStatus(v, cv, enabled)
        drawn  == IF getImageDataThrows(v.videoWidth, v.videoHeight)
                  THEN sized ELSE [sized EXCEPT !.data = v.data]
    IN  /\ status = "posted" => InFlight < MaxInFlight
        /\ call' = [call EXCEPT ![i] =
               [status |-> status,
                args |-> [color |-> color, threshold |-> threshold,
                          enabled |-> enabled]]]
        /\ canvas' = [canvas EXCEPT ![i] =
               CASE status = "disabled" -> processDisabled(cv)
                 [] status = "noctx" -> sized
                 [] status = "sync" -> processSynchronously(sized, v, color, threshold)
                 [] status = "threw" -> sized
                 [] OTHER -> drawn]
        /\ worker' = IF status \in {"disabled", "noctx"} \/ worker.created \/ ~workerOk
                     THEN worker ELSE createWorker(i, color, threshold)
        /\ lastVideoWidth' = IF status \in {"posted", "threw"} /\ workerOk
                             THEN v.videoWidth ELSE lastVideoWidth
        /\ lastVideoHeight' = IF status \in {"posted", "threw"} /\ workerOk
                              THEN v.videoHeight ELSE lastVideoHeight
        /\ inbox' = IF status = "posted"
                    THEN Append(inbox, [imageData |-> getImageData(drawn),
                                        threshold |-> threshold, color |-> color,
                                        from |-> i])
                    ELSE inbox
        /\ UNCHANGED <<mounted, video, docCtx, workerOk, outbox, reported,
                       playerVars, probe, uiVars>>

\* a render loop invokes the worker variant's processFrame
CallWorker ==
    \E i \in mounted, color \in WorkerColors, threshold \in Thresholds,
       enabled \in BOOLEAN :
        processFrameWorker(i, color, threshold, enabled)

\* self.onmessage in the worker: the oldest message is processed and the
\* result posted back
WorkerRun ==
    /\ inbox # << >>
    /\ outbox' = Append(outbox,
           [imageData |-> applyFocusPeaking(Head(inbox).imageData,
                                            Head(inbox).threshold, Head(inbox).color),
            from |-> Head(inbox).from])
    /\ inbox' = Tail(inbox)
    /\ UNCHANGED <<mounted, video, canvas, docCtx, call, lastVideoWidth,
                   lastVideoHeight, worker, workerOk, reported, playerVars, probe, uiVars>>

\* worker.onmessage on the page: the result is put on the captured ctx
onmessage ==
    /\ outbox # << >>
    /\ canvas' = [canvas EXCEPT ![worker.canvas] =
                     putImageData(@, Head(outbox).imageData)]
    /\ outbox' = Tail(outbox)
    /\ UNCHANGED <<mounted, video, docCtx, call, lastVideoWidth,
                   lastVideoHeight, worker, workerOk, inbox, reported, playerVars,
                   probe, uiVars>>

\* worker.onerror on the page: the worker failed on its oldest message; the
\* fallback runs with the captured ctx, videoElement, color and threshold
onerror ==
    /\ inbox # << >>
    /\ canvas' = [canvas EXCEPT ![worker.canvas] =
                     processSynchronously(@, video[worker.video],
                                          worker.color, worker.threshold)]
    /\ inbox' = Tail(inbox)
    /\ UNCHANGED <<mounted, video, docCtx, call, lastVideoWidth,
                   lastVideoHeight, worker, workerOk, outbox, reported, playerVars,
                   probe, uiVars>>

\* a video element of the worker variant's page shows another frame
DecodeWorker ==
    \E i \in mounted, f \in WorkerFrames :
        /\ f # video[i]
        /\ video' = [video EXCEPT ![i] = f]
        /\ UNCHANGED <<mounted, canvas, docCtx, call, lastVideoWidth,
                       lastVideoHeight, workerVars, reported, playerVars, probe, uiVars>>

NextWorker == CallWorker \/ WorkerRun \/ onmessage \/ onerror \/ DecodeWorker

SpecWorker == InitWorker /\ [][NextWorker]_vars

(***************************************************************************)
(* The player component (VideoPlayer.tsx) and its render loop.  The loop   *)
(* calls the seven-argument processFrame of the outline variant.           *)
(***************************************************************************)
\* what the controls can set (ColorPicker chips, threshold and intensity
\* sliders, mode buttons); intensity is kept as the percentage the slider holds
PlayerColors == {"#FF4A4A", "#4AFF4A"}

\* faulty variant: a threshold slider from 0 to 100
ThresholdSliderWide == [min |-> 0, max |-> 100, step |-> 1]

\* <Slider min={5} max={50} step={1}> for the threshold and
\* <Slider min={10} max={100} step={5}> for the intensity
ThresholdSlider == [min |-> 5, max |-> 50, step |-> 1]
IntensitySlider == [min |-> 10, max |-> 100, step |-> 5]

\* the values a slider can hand to onValueChange
SliderValues(s) == {s.min + k * s.step : k \in 0..((s.max - s.min) \div s.step)}

\* the slider positions the model's user picks: both ends and the initial value
SliderPicks(s, initial) ==
    {v \in SliderValues(s) : v = s.min \/ v = s.max \/ v = initial}

PlayerThresholds == SliderPicks(ThresholdSlider, InitialCfg.threshold)
PlayerPercents == SliderPicks(IntensitySlider, InitialCfg.pct)

\* the settings the model's user moves between: the initial ones and those
\* one control away from them
PlayerCfgs ==
    {InitialCfg}
    \cup {[InitialCfg EXCEPT !.enabled = FALSE]}
    \cup {[InitialCfg EXCEPT !.color = c] : c \in PlayerColors}
    \cup {[InitialCfg EXCEPT !.threshold = t] : t \in PlayerThresholds}
    \cup {[InitialCfg EXCEPT !.pct = p] : p \in PlayerPercents}
    \cup {[InitialCfg EXCEPT !.mode = m] : m \in Modes}

\* the settings that differ in one control
OneControlApart(a, b) ==
    Cardinality({f \in DOMAIN a : a[f] # b[f]}) = 1

\* the frames the player's video shows
PlayerFrames ==
    {NoVideo,
     [videoWidth |-> 4, videoHeight |-> 3, data |-> FrameData("ramp", 4, 3)],
     [videoWidth |-> MaxWidth, videoHeight |-> 3,
      data |-> FrameData("vline", MaxWidth, 3)]}

\* the handles of the pending callbacks
Handles(pending) == {c.id : c \in pending}

\* requestAnimationFrame hands out a handle it never handed out before: here
\* the smallest number that no pending callback has and that the reference
\* kept in animationRef.current does not hold; other handles of the past are
\* kept nowhere
FreshHandle(pending, ref) ==
    CHOOSE n \in 1..(Cardinality(pending) + 2) :
        /\ n \notin Handles(pending) \cup {ref}
        /\ \A m \in 1..(n - 1) : m \in Handles(pending) \cup {ref}

\* requestAnimationFrame(renderFocusPeaking), renderFocusPeaking being the
\* closure over the settings of the render that created it
requestAnimationFrame(pending, ref, closure) ==
    pending \cup {[id |-> FreshHandle(pending, ref), closure |-> closure]}

\* faulty variant: the handle of the callback a tick requests is dropped
storedHandleStale(ref, id) == ref

\* animationRef.current = requestAnimationFrame(renderFocusPeaking)
storedHandle(ref, id) == id

cancelAnimationFrame(pending, id) == {c \in pending : c.id # id}

\* faulty variant: the cleanup forgets the pending callback
effectCleanupNoCancel(pending, ref) == pending

\* the cleanup of either effect: if (animationRef.current)
\* cancelAnimationFrame(animationRef.current)
effectCleanup(pending, ref) ==
    IF ref # 0 THEN cancelAnimationFrame(pending, ref) ELSE pending

\* the player after mount: both effects have run, the render loop effect has
\* requested the first callback
InitPlayer ==
    /\ mounted = {1}
    /\ video = [i \in Instances |-> NoVideo]
    /\ \E c \in BOOLEAN : canvas = [i \in Instances |-> NewCanvas(c)]
    /\ docCtx = TRUE
    /\ call = [i \in Instances |-> NoCall]
    /\ lastVideoWidth = 0
    /\ lastVideoHeight = 0
    /\ worker = NoWorker
    /\ workerOk = TRUE
    /\ inbox = << >>
    /\ outbox = << >>
    /\ reported = 0
    /\ cfg = [i \in Instances |-> InitialCfg]
    /\ ready = [i \in Instances |-> FALSE]
    /\ raf = [i \in Instances |->
                IF i = 1 THEN requestAnimationFrame({}, 0, InitialCfg) ELSE {}]
    /\ animationRef = [i \in Instances |-> IF i = 1 THEN FreshHandle({}, 0) ELSE 0]
    /\ lastTick = [i \in Instances |-> "none"]
    /\ audio = [i \in Instances |-> InitialAudio]
    /\ index = fetchThen(InitialIndex)
    /\ probe = NoProbe

\* the buffers a processFrame call of the outline variant allocates: the
\* canvas backing store when it resizes, the off-screen canvas
\* (document.createElement), the luminance buffer (new Uint8Array) and the
\* overlay image (new ImageData) as far as the call gets
allocations(v, cv, enabled) ==
    IF ~enabled THEN {}
    ELSE (IF cv.width # v.videoWidth \/ cv.height # v.videoHeight
          THEN {"canvas"} ELSE {})
         \cup (IF ~cv.ctx THEN {} ELSE {"offscreen"})
         \cup (IF processFrameStatus(v, cv, enabled) = "ok"
               THEN {"luminance", "overlay"} ELSE {})

\* what the call a tick makes is recorded as: how it ended, its arguments,
\* the canvas size it found and the buffers it allocated
TickCall(i, args) ==
    [status |-> processFrameStatus(video[i], canvas[i], args.enabled),
     args |-> args,
     before |-> [width |-> canvas[i].width, height |-> canvas[i].height],
     allocated |-> allocations(video[i], canvas[i], args.enabled)]

\* whether renderFocusPeaking reaches its last line, the request of the next
\* callback: not when processFrame threw
renderReschedules(isReady, status) == ~isReady \/ status # "threw"

\* faulty variant: the tick processes whatever the video element holds
renderCallsAlways(isReady) == TRUE

\* if (video.readyState >= 2)
renderCalls(isReady) == isReady

\* renderFocusPeaking: an animation-frame callback of player i runs
renderFocusPeaking(i, c) ==
    LET rest   == raf[i] \ {c}
        a      == c.closure
        status == processFrameStatus(video[i], canvas[i], a.enabled)
        again  == requestAnimationFrame(rest, animationRef[i], a)
    IN  /\ IF renderCalls(ready[i])
           THEN /\ canvas' = [canvas EXCEPT ![i] =
                       processFrameCanvas(video[i], @, a.color, a.threshold,
                                          a.enabled, a.pct, a.mode)]
                /\ call' = [call EXCEPT ![i] = TickCall(i, a)]
                /\ reported' = reportedAfter(status)
           ELSE UNCHANGED <<canvas, call, reported>>
        /\ IF renderReschedules(ready[i], status)
           THEN /\ raf' = [raf EXCEPT ![i] = again]
                /\ animationRef' = [animationRef EXCEPT ![i] =
                       storedHandle(@, FreshHandle(rest, @))]
           ELSE /\ raf' = [raf EXCEPT ![i] = rest]
                /\ UNCHANGED animationRef
        /\ lastTick' = [lastTick EXCEPT ![i] =
               IF ~renderCalls(ready[i]) THEN "skipped"
               ELSE IF status = "threw" THEN "threw" ELSE "processed"]
        /\ UNCHANGED <<mounted, video, docCtx, lastVideoWidth, lastVideoHeight,
                       workerVars, cfg, ready, probe, uiVars>>

\* the browser runs a pending animation-frame callback
Tick == \E i \in Instances : \E c \in raf[i] : renderFocusPeaking(i, c)

\* a control changes one of enabled, color, threshold, intensity, mode: the
\* render loop effect is cleaned up (cancel, animationRef.current = null) and
\* runs again with the new settings
ConfigChange ==
    \E i \in mounted, new \in PlayerCfgs :
        /\ OneControlApart(new, cfg[i])
        /\ cfg' = [cfg EXCEPT ![i] = new]
        /\ raf' = [raf EXCEPT ![i] =
               requestAnimationFrame(effectCleanup(@, animationRef[i]), 0, new)]
        /\ animationRef' = [animationRef EXCEPT ![i] =
               FreshHandle(effectCleanup(raf[i], animationRef[i]), 0)]
        /\ UNCHANGED <<mounted, video, canvas, docCtx, call, lastVideoWidth,
                       lastVideoHeight, workerVars, reported, ready, lastTick,
                       probe, uiVars>>

\* the src prop changes: the first effect is cleaned up (cancel, the
\* reference is kept) and runs again (video.load()); the render loop effect
\* does not depend on src and does not run
SrcChange ==
    \E i \in mounted :
        /\ raf' = [raf EXCEPT ![i] = effectCleanup(@, animationRef[i])]
        /\ video' = [video EXCEPT ![i] = NoVideo]
        /\ ready' = [ready EXCEPT ![i] = FALSE]
        /\ UNCHANGED <<mounted, canvas, docCtx, call, lastVideoWidth,
                       lastVideoHeight, workerVars, reported, cfg, animationRef,
                       lastTick, probe, uiVars>>

\* the video element has a current frame (readyState >= 2): the first one,
\* or another one during playback
LoadedData ==
    \E i \in mounted, f \in PlayerFrames :
        /\ ~ready[i] \/ f # video[i]
        /\ video' = [video EXCEPT ![i] = f]
        /\ ready' = [ready EXCEPT ![i] = TRUE]
        /\ UNCHANGED <<mounted, canvas, docCtx, call, lastVideoWidth,
                       lastVideoHeight, workerVars, reported, cfg, raf,
                       animationRef, lastTick, probe, uiVars>>

\* the video element waits for data (seek, buffer underrun): readyState
\* falls below 2, the dimensions stay
Waiting ==
    \E i \in mounted :
        /\ ready[i]
        /\ ready' = [ready EXCEPT ![i] = FALSE]
        /\ UNCHANGED <<mounted, video, canvas, docCtx, call, lastVideoWidth,
                       lastVideoHeight, workerVars, reported, cfg, raf,
                       animationRef, lastTick, probe, uiVars>>

\* the player is unmounted: both cleanups run
Unmount ==
    \E i \in mounted :
        /\ mounted' = mounted \ {i}
        /\ raf' = [raf EXCEPT ![i] = effectCleanup(@, animationRef[i])]
        /\ animationRef' = [animationRef EXCEPT ![i] = 0]
        /\ UNCHANGED <<video, canvas, docCtx, call, lastVideoWidth,
                       lastVideoHeight, workerVars, reported, cfg, ready,
                       lastTick, probe, uiVars>>

NextPlayer == Tick \/ ConfigChange \/ SrcChange \/ LoadedData \/ Waiting \/ Unmount

SpecPlayer == InitPlayer /\ [][NextPlayer]_vars

(***************************************************************************)
(* Functions applied on their own: the arguments are drawn at the start,   *)
(* an action applies the function and keeps what it returned.              *)
(***************************************************************************)
\* nothing but the function under study exists
NoPage ==
    /\ mounted = {}
    /\ video = [i \in Instances |-> NoVideo]
    /\ canvas = [i \in Instances |-> NewCanvas(TRUE)]
    /\ docCtx = TRUE
    /\ call = [i \in Instances |-> NoCall]
    /\ lastVideoWidth = 0
    /\ lastVideoHeight = 0
    /\ worker = NoWorker
    /\ workerOk = TRUE
    /\ inbox = << >>
    /\ outbox = << >>
    /\ reported = 0
    /\ NoPlayer

pageVars ==
    <<mounted, video, canvas, docCtx, call, lastVideoWidth, lastVideoHeight,
      workerVars, reported, playerVars, uiVars>>

\* the strings of up to n of the characters in cs
RECURSIVE StringsUpTo(_, _)
StringsUpTo(cs, n) ==
    IF n = 0 THEN {<< >>}
    ELSE LET shorter == StringsUpTo(cs, n - 1)
         IN  shorter \cup {Append(s, c) : s \in shorter, c \in cs}

\* colour strings handed to hexToRgb: those of the other specifications and
\* every string of a few characters: a hex digit in either case, a digit, a
\* letter that is no hex digit, the hash sign
ColorChars == {"#", "4", "f", "G"}

ColorStrings ==
    {Chars(c) : c \in {"#FF4A4A", "#4AFF4A", "00ff00", "#FFF", "not-a-color"}}
    \cup StringsUpTo(ColorChars, MaxColorLen)

InitColor ==
    /\ NoPage
    /\ \E hex \in ColorStrings : probe = [fn |-> "pending", hex |-> hex]

\* hexToRgb(color) as the outline variant calls it
ApplyHexToRgb ==
    /\ probe.fn = "pending"
    /\ probe' = [fn |-> "hexToRgb", hex |-> probe.hex, rgb |-> hexToRgb(probe.hex)]
    /\ UNCHANGED pageVars

\* hexToRgb(colorHex) inside the worker script
ApplyHexToRgbInWorker ==
    /\ probe.fn = "pending"
    /\ probe' = [fn |-> "hexToRgbInWorker", hex |-> probe.hex,
                 rgb |-> hexToRgbInWorker(probe.hex)]
    /\ UNCHANGED pageVars

\* hexToRgb(color) as processSynchronously calls it
ApplyHexToRgbSync ==
    /\ probe.fn = "pending"
    /\ probe' = [fn |-> "hexToRgbSync", hex |-> probe.hex,
                 rgb |-> hexToRgbSync(probe.hex)]
    /\ UNCHANGED pageVars

NextColor == ApplyHexToRgb \/ ApplyHexToRgbInWorker \/ ApplyHexToRgbSync

SpecColor == InitColor /\ [][NextColor]_vars

(***************************************************************************)
(* Properties of the outline variant.                                      *)
(***************************************************************************)
\* the alpha bytes of a bitmap that are not 0
Opaque(data) == {k \in DOMAIN data : k % 4 = 3 /\ data[k] # 0}

\* C1: a processFrame call with enabled = false leaves the overlay with
\* alpha 0 at every pixel, whatever the frame and whatever the canvas held:
\* the canvas is its own cleared bitmap.
C1_DisabledTransparent ==
    \A i \in mounted :
        call[i].status = "disabled" =>
            /\ Opaque(canvas[i].data) = {}
            /\ canvas[i].data = Blank(canvas[i].width, canvas[i].height)

\* a disabled call on a frame with an edge, on a canvas an earlier enabled
\* call had sized to that frame
C1_Witness ==
    /\ call[1].status = "disabled"
    /\ canvas[1].ctx
    /\ canvas[1].width = 5
    /\ video[1].data = FrameData("vline", 5, 3)

MoreThresholds == {0, 10, 11, 30, 46, 47, 50, 51, 255, 361}

\* C4: for a fixed frame, colour and intensity, a threshold t2 >= t1 gives at
\* most as many overlay pixels with alpha > 0 as t1 does.
C4_ThresholdMonotone ==
    \A i \in mounted :
        call[i].status = "ok" =>
            \A t2 \in MoreThresholds :
                t2 >= call[i].args.threshold =>
                    Cardinality(Opaque(
                        outlineData(video[i].data, canvas[i].width, canvas[i].height,
                                    hexToRgb(Chars(call[i].args.color)), t2,
                                    call[i].args.pct)))
                    <= Cardinality(Opaque(canvas[i].data))

\* the overlay at threshold 10 has edge pixels that threshold 50 loses
C4_Witness ==
    /\ call[1].status = "ok"
    /\ call[1].args.threshold = 10
    /\ Opaque(canvas[1].data) # {}
    /\ Opaque(outlineData(video[1].data, canvas[1].width, canvas[1].height,
                          hexToRgb(Chars(call[1].args.color)), 50,
                          call[1].args.pct)) = {}

\* C5: a processFrame call repeated with the same frame and the same
\* arguments leaves the overlay it found, ends as the first call ended, and
\* no module-level state has changed in between.
C5_RepeatIdentical ==
    [][\A i \in mounted :
          (call[i].status # "none" /\ call'[i].status # "none"
           /\ call'[i].repeat = call[i].repeat + 1) =>
              /\ canvas'[i] = canvas[i]
              /\ call'[i].status = call[i].status
              /\ lastVideoWidth' = lastVideoWidth
              /\ lastVideoHeight' = lastVideoHeight]_vars

\* the same enabled call has been made twice on a frame with edges
C5_Witness ==
    /\ call[1].status = "ok"
    /\ call[1].repeat = 1
    /\ Opaque(canvas[1].data) # {}

\* C10: no processFrame call throws.
C10_NeverThrows == \A i \in mounted : call[i].status # "threw"

\* the alpha bytes of the pixels in row 0, row height-1, column 0 or column
\* width-1 of a canvas that are not 0
OpaqueBorder(cv) ==
    {k \in Opaque(cv.data) :
        LET x == (k \div 4) % cv.width
            y == (k \div 4) \div cv.width
        IN  x = 0 \/ x = cv.width - 1 \/ y = 0 \/ y = cv.height - 1}

\* C3: every border pixel of the overlay a processFrame call has written,
\* by the outline loop or by processSynchronously, has alpha 0.
C3_BorderTransparent ==
    \A i \in mounted :
        call[i].status \in {"ok", "sync"} => OpaqueBorder(canvas[i]) = {}

(***************************************************************************)
(* Properties of the worker variant.                                       *)
(***************************************************************************)
\* the in-flight messages and results that come from instance i
InFlightOf(i) ==
    Cardinality({k \in DOMAIN inbox : inbox[k].from = i})
        + Cardinality({k \in DOMAIN outbox : outbox[k].from = i})

\* a step that works for instance j: its processFrame posts a frame, the
\* worker's result for its frame is delivered, or the worker fails on its frame
PostsFor(j) ==
    /\ Len(inbox') = Len(inbox) + 1
    /\ inbox'[Len(inbox')].from = j

DeliversFor(j) ==
    /\ outbox # << >> /\ outbox' = Tail(outbox) /\ inbox' = inbox
    /\ Head(outbox).from = j

FailsFor(j) ==
    /\ inbox # << >> /\ inbox' = Tail(inbox) /\ outbox' = outbox
    /\ Head(inbox).from = j

\* C6: processing a frame for one video instance never changes the overlay
\* canvas of another instance.
C6_NoCrossInstanceWrite ==
    [][\A i \in mounted, j \in mounted :
          (i # j /\ (PostsFor(j) \/ DeliversFor(j) \/ FailsFor(j)))
              => canvas'[i] = canvas[i]]_vars

\* C7: at most one delegated computation is outstanding per video instance.
C7_OneOutstanding == \A i \in mounted : InFlightOf(i) <= 1

\* C8: when processFrame was last called with enabled = false for an
\* instance and the worker's result for a frame of that instance arrives, the
\* result is discarded: the overlay canvas stays fully transparent.
C8_LateResultDiscarded ==
    [][\A i \in mounted :
          (call[i].status = "disabled" /\ DeliversFor(i)) =>
              Opaque(canvas'[i].data) = {}]_vars

\* C9: whenever a frame of an instance is processed, by a processFrame call
\* or by the worker error fallback, the colour and threshold used are those
\* of the instance's latest processFrame call.
C9_FallbackUsesCurrentConfig ==
    [][\A j \in mounted :
          (FailsFor(j) /\ worker.canvas = j) =>
              canvas'[j] = processSynchronously(canvas[j], video[j],
                               call[j].args.color, call[j].args.threshold)]_vars

(***************************************************************************)
(* Properties of the player's render loop.                                 *)
(***************************************************************************)
\* C11: when the canvas yields no drawing context, the failure is reported
\* once for the render session and processing halts: however many ticks
\* follow, the report count stays at one at most.
C11_ReportedOnce == reported <= 1

(***************************************************************************)
(* Properties of the colour parsers.                                       *)
(***************************************************************************)
\* C12: every hexToRgb of the processor returns (255, 0, 0) for a string
\* that is not six hex digits with an optional leading '#', and the three
\* parsed components for a string that is.
C12_FallbackRed ==
    probe.fn \in {"hexToRgb", "hexToRgbInWorker", "hexToRgbSync"} =>
        probe.rgb =
            IF HexMatch(probe.hex) = << >>
            THEN [r |-> 255, g |-> 0, b |-> 0]
            ELSE [r |-> ParsePair(HexMatch(probe.hex), 1),
                  g |-> ParsePair(HexMatch(probe.hex), 2),
                  b |-> ParsePair(HexMatch(probe.hex), 3)]

\* a step in which an animation-frame callback of player i runs
Ticks(i) == \E c \in raf[i] : renderFocusPeaking(i, c)

C14_ModeIrrelevant ==
    [][\A i \in Instances :
          (Ticks(i) /\ ready[i]) =>
              \A m \in Modes :
                  canvas'[i] =
                      processFrameCanvas(video[i], canvas[i], call'[i].args.color,
                                         call'[i].args.threshold,
                                         call'[i].args.enabled,
                                         call'[i].args.pct, m)]_vars

\* a call in contrast mode has drawn edges
C14_Witness ==
    /\ call[1].status = "ok"
    /\ call[1].args.mode = "contrast"
    /\ Opaque(canvas[1].data) # {}

(***************************************************************************)
(* The outline loop applied to square test frames.                         *)
(***************************************************************************)
ScenePatterns == {"white", "black", "grey", "red", "line32"}
SceneThresholds == {1, 10, 50}
ScenePercents == {10, 100}

InitScene ==
    /\ NoPage
    /\ \E pat \in ScenePatterns, color \in PlayerColors,
          threshold \in SceneThresholds, pct \in ScenePercents :
          probe = [fn |-> "frame", pat |-> pat, color |-> color,
                   threshold |-> threshold, pct |-> pct]

\* the pixels (x, y) of a bitmap of the given width whose alpha is not 0
OpaquePixels(data, width) ==
    {<<(k \div 4) % width, (k \div 4) \div width>> : k \in Opaque(data)}

\* steps 1 to 3 of processFrame on the square test frame: grayscale, edge loop;
\* kept are the colour looked up and the pixels that got an alpha
ApplyOutline ==
    /\ probe.fn = "frame"
    /\ probe' = [fn |-> "outlineData", pat |-> probe.pat, color |-> probe.color,
                 threshold |-> probe.threshold, pct |-> probe.pct,
                 opaque |-> OpaquePixels(
                     outlineData(FrameData(probe.pat, SceneSize, SceneSize),
                                 SceneSize, SceneSize,
                                 hexToRgb(Chars(probe.color)), probe.threshold,
                                 probe.pct), SceneSize)]
    /\ UNCHANGED pageVars

NextScene == ApplyOutline

SpecScene == InitScene /\ [][NextScene]_vars

\* C15: for a square test frame whose pixels are all equal, any threshold
\* of 1 or more, any intensity and any colour, the outline has alpha 0 at
\* every pixel.
C15_UniformTransparent ==
    (probe.fn = "outlineData" /\ probe.pat \in {"white", "black", "grey", "red"}
     /\ probe.threshold >= 1)
        => probe.opaque = {}

\* the outline of the grey frame at threshold 1 and full intensity
C15_Witness ==
    /\ probe.fn = "outlineData"
    /\ probe.pat = "grey"
    /\ probe.threshold = 1
    /\ probe.pct = 100

\* C16: for the black frame with the white line in column 32, threshold 10
\* and intensity 1.0, the pixels with alpha other than 0 are those of columns
\* 31 and 33 outside the border rows, and no others.
C16_LineNeighbours ==
    (probe.fn = "outlineData" /\ probe.pat = "line32"
     /\ probe.threshold = 10 /\ probe.pct = 100)
        => probe.opaque = {31, 33} \X (1..(SceneSize - 2))

\* the outline of the line frame has a pixel in column 31 and in column 33
C16_Witness ==
    /\ probe.fn = "outlineData"
    /\ probe.pat = "line32"
    /\ probe.threshold = 10 /\ probe.pct = 100
    /\ <<31, 1>> \in probe.opaque
    /\ <<33, SceneSize - 2>> \in probe.opaque

\* C17: at most one animation-frame callback is pending for a player at any
\* time, also right after a configuration change has restarted the loop, so
\* no two loop chains run side by side and no processFrame call starts
\* before the one before it has returned.
C17_OnePending == \A i \in Instances : Cardinality(raf[i]) <= 1

\* the loop has processed a frame and was restarted by a control: the one
\* pending callback is the one with the new settings
C17_Witness ==
    /\ lastTick[1] = "processed"
    /\ cfg[1] # InitialCfg
    /\ raf[1] = {[id |-> animationRef[1], closure |-> cfg[1]]}

\* C18: a tick on which the video has no current frame (readyState < 2)
\* makes no processFrame call, leaves the overlay as it is, and requests the
\* next tick.
C18_NoFrameTick ==
    [][\A i \in Instances :
          (Ticks(i) /\ ~ready[i]) =>
              /\ canvas' = canvas
              /\ call' = call
              /\ reported' = reported
              /\ Cardinality(raf'[i]) = 1
              /\ animationRef'[i] \in Handles(raf'[i])]_vars

\* a tick was skipped while the overlay held the edges of an earlier frame
C18_Witness ==
    /\ lastTick[1] = "skipped"
    /\ ~ready[1]
    /\ Opaque(canvas[1].data) # {}
    /\ raf[1] # {}

\* C19: for as long as the player is mounted, after any sequence of
\* configuration changes and src changes, an animation-frame callback for
\* renderFocusPeaking is pending.
C19_LoopAlive == \A i \in mounted : raf[i] # {}

(***************************************************************************)
(* The two execution paths of the worker variant.                          *)
(***************************************************************************)
\* C20: the overlay processSynchronously leaves for a frame, colour and
\* threshold is the overlay the worker path leaves for them: the canvas a
\* call that ran the fallback leaves is the canvas, sized to the frame, with
\* the worker's applyFocusPeaking result put on it.
C20_SamePaths ==
    [][\A i \in mounted :
          (/\ video' = video
           /\ call'[i].status = "sync"
           /\ (call'[i] # call[i] \/ canvas'[i] # canvas[i]))
          => canvas'[i] =
                 putImageData(
                     resizeIfNeeded(video[i], canvas[i]),
                     applyFocusPeaking(
                         [width |-> video[i].videoWidth,
                          height |-> video[i].videoHeight,
                          data |-> video[i].data],
                         call'[i].args.threshold, call'[i].args.color))]_vars

(***************************************************************************)
(* How the player shows the overlay canvas.                                *)
(***************************************************************************)
\* faulty variant: a disabled overlay falls back to the normal blend
canvasStyleByEnabled(c) ==
    [opacity |-> IF c.enabled THEN 1 ELSE 0,
     mixBlendMode |-> IF ~c.enabled THEN "normal"
                      ELSE IF c.mode = "highlight" THEN "screen"
                      ELSE IF c.mode = "outline" THEN "normal"
                      ELSE "overlay"]

\* the style of the <canvas> element as rendered from the settings
canvasStyle(c) ==
    [opacity |-> IF c.enabled THEN 1 ELSE 0,
     mixBlendMode |-> IF c.mode = "highlight" THEN "screen"
                      ELSE IF c.mode = "outline" THEN "normal"
                      ELSE "overlay"]

\* C21: the blend mode of the overlay canvas is 'screen' for highlight,
\* 'normal' for outline and 'overlay' for contrast, and a change of the
\* settings that keeps the mode keeps the blend mode.
C21_BlendByMode ==
    [][\A i \in mounted :
          /\ canvasStyle(cfg'[i]).mixBlendMode =
                 CASE cfg'[i].mode = "highlight" -> "screen"
                   [] cfg'[i].mode = "outline" -> "normal"
                   [] cfg'[i].mode = "contrast" -> "overlay"
          /\ cfg'[i].mode = cfg[i].mode =>
                 canvasStyle(cfg'[i]).mixBlendMode = canvasStyle(cfg[i]).mixBlendMode]_vars

\* the overlay was switched off in a mode other than outline, after the loop
\* had run
C21_Witness ==
    /\ 1 \in mounted
    /\ ~cfg[1].enabled
    /\ cfg[1].mode = "highlight"
    /\ lastTick[1] = "processed"

PixelSqs == {gx * gx + gy * gy : gx \in {0, 1, 5, 26, 51, 130, 255}, gy \in {0, 40}}

\* intensity times 100, also outside of what the slider gives
PixelPercents == {-50, 0, 10, 50, 80, 100, 150}

\* channel values
PixelBytes == {0, 1, 74, 128, 255}

InitPixel ==
    /\ NoPage
    /\ \/ \E sq \in PixelSqs, threshold \in PlayerThresholds, pct \in PixelPercents :
              probe = [fn |-> "edge", sq |-> sq, threshold |-> threshold, pct |-> pct]
       \/ \E r \in PixelBytes, g \in PixelBytes, b \in PixelBytes :
              probe = [fn |-> "rgb", r |-> r, g |-> g, b |-> b]

\* the body of if (edgeResponse > threshold): edgeStrength, alpha, and the
\* byte outlinePixels[outlineIdx + 3] keeps
ApplyAlpha ==
    /\ probe.fn = "edge"
    /\ IsEdge(probe.sq, probe.threshold)
    /\ probe' = [fn |-> "alpha", sq |-> probe.sq, threshold |-> probe.threshold,
                 pct |-> probe.pct,
                 alpha |-> AlphaOf(probe.sq, probe.threshold, probe.pct)]
    /\ UNCHANGED pageVars

\* grayscale[i / 4] = Math.round(...) of the outline variant; the value is
\* kept times 1000
ApplyLuma ==
    /\ probe.fn = "rgb"
    /\ probe' = [fn |-> "Luma", r |-> probe.r, g |-> probe.g, b |-> probe.b,
                 lum |-> 1000 * Luma(probe.r, probe.g, probe.b)]
    /\ UNCHANGED pageVars

\* getGrayscale(data, width, y, x) of processSynchronously on a pixel with
\* these channels; the value is kept times 1000
ApplyGetGrayscale ==
    /\ probe.fn = "rgb"
    /\ probe' = [fn |-> "getGrayscale", r |-> probe.r, g |-> probe.g, b |-> probe.b,
                 lum |-> getGrayscale([i \in 0..3 |-> <<probe.r, probe.g, probe.b, 255>>[i + 1]],
                                      1, 0, 0)]
    /\ UNCHANGED pageVars

NextPixel == ApplyAlpha \/ ApplyLuma \/ ApplyGetGrayscale

SpecPixel == InitPixel /\ [][NextPixel]_vars

\* C23: the alpha byte of an edge pixel is clamp(0, 255, s * intensity) with
\* s = clamp(0, 255, (magnitude - threshold) * 2), to the nearest byte value:
\* it lies in 0..255, is within one half of that value, and does not go down
\* when the magnitude or the intensity goes up
C23_AlphaClamped ==
    probe.fn = "alpha" =>
        LET sq  == probe.sq
            t   == probe.threshold
            p   == probe.pct
            a   == probe.alpha
            \* clamp(0, 255, s * p / 100) >= q / 2, for q > 0
            atLeast(q) == /\ p > 0
                          /\ q <= 510
                          /\ 255 * p >= 50 * q
                          /\ p * p * sq >= (p * t + 25 * q) * (p * t + 25 * q)
            \* clamp(0, 255, s * p / 100) <= q / 2, for q > 0
            atMost(q) == \/ p <= 0
                         \/ q >= 510
                         \/ 255 * p <= 50 * q
                         \/ p * p * sq <= (p * t + 25 * q) * (p * t + 25 * q)
        IN  /\ a \in 0..255
            /\ a >= 1 => atLeast(2 * a - 1)
            /\ a <= 254 => atMost(2 * a + 1)
            /\ \A sq2 \in PixelSqs : sq2 >= sq => AlphaOf(sq2, t, p) >= a
            /\ \A p2 \in PixelPercents : p2 >= p => AlphaOf(sq, t, p2) >= a

\* an edge response of 51 over threshold 25 at intensity 0.8: s = 52 and
\* the alpha is 41.6, kept as 42
C23_Witness ==
    /\ probe.fn = "alpha"
    /\ probe.sq = 51 * 51
    /\ probe.threshold = 25
    /\ probe.pct = 80
    /\ probe.alpha = 42

\* C24: an intensity outside [0, 1] acts as the nearest bound: above 1 the
\* alpha of every edge pixel is the one intensity 1 gives, below 0 the one
\* intensity 0 gives
C24_IntensityClamped ==
    probe.fn = "alpha" =>
        LET clamped == IF probe.pct > 100 THEN 100
                       ELSE IF probe.pct < 0 THEN 0
                       ELSE probe.pct
        IN  probe.alpha = AlphaOf(probe.sq, probe.threshold, clamped)

\* C25: the luminance taken for a pixel with channels R, G, B is
\* round(0.299 * R + 0.587 * G + 0.114 * B): a whole number in 0..255, and v
\* when R = G = B = v.  Values are held times 1000.
C25_LumaRounded ==
    probe.fn \in {"Luma", "getGrayscale"} =>
        LET weighted == 299 * probe.r + 587 * probe.g + 114 * probe.b
            rounded  == (weighted + 500) \div 1000
        IN  /\ probe.lum = 1000 * rounded
            /\ rounded \in 0..255
            /\ (probe.r = probe.g /\ probe.g = probe.b) => probe.lum = 1000 * probe.r

\* C26: a processFrame call that runs to its end allocates buffers (canvas
\* backing store, off-screen canvas, luminance buffer, overlay image) exactly
\* when the frame's dimensions differ from the ones the canvas kept from the
\* call before; with unchanged dimensions it allocates nothing
C26_AllocateOnResize ==
    [][\A i \in mounted :
          (Ticks(i) /\ ready[i] /\ call'[i].status = "ok") =>
              (call'[i].allocated # {}
                  <=> (\/ canvas[i].width # video[i].videoWidth
                       \/ canvas[i].height # video[i].videoHeight))]_vars

(***************************************************************************)
(* Properties of the player: what its controls can hand to processFrame,   *)
(* and the end of the render loop.                                         *)
(***************************************************************************)
\* C27: whatever the controls did, the threshold a tick hands to processFrame
\* is a whole number in 5..50 and the intensity, percentage / 100, is in
\* [0, 1]; the same holds for the settings a pending callback has captured
C27_ArgsInRange ==
    \A i \in Instances :
        /\ call[i].status # "none" =>
              /\ call[i].args.threshold \in 5..50
              /\ call[i].args.pct \in 0..100
        /\ \A c \in raf[i] :
              /\ c.closure.threshold \in 5..50
              /\ c.closure.pct \in 0..100

\* the threshold slider was dragged to its upper end and a frame was
\* processed with it
C27_Witness ==
    /\ call[1].status = "ok"
    /\ call[1].args.threshold = 50
    /\ cfg[1].threshold = 50

\* C28: once the player is unmounted no callback of its render loop runs, so
\* processFrame is not called for it again, whether the pending callback was
\* requested by the effect or by a tick
C28_NoCallAfterUnmount ==
    [][\A i \in Instances \ mounted : ~Ticks(i) /\ call'[i] = call[i]]_vars

\* the player was unmounted while its loop was running: ticks had processed
\* frames and requested the callback that was pending
C28_Witness ==
    /\ 1 \notin mounted
    /\ lastTick[1] = "processed"
    /\ call[1].status = "ok"
    /\ cfg[1] = InitialCfg
    /\ raf[1] = {}

(***************************************************************************)
(* The index page and the player's volume controls.  The page checks that  *)
(* the video file exists and shows the player once the check has settled;  *)
(* volumes are held times 100.                                             *)
(***************************************************************************)
\* the volume slider: min 0, max 1, step 0.01
VolumeSlider == [min |-> 0, max |-> 100, step |-> 1]

\* value={[isMuted ? 0 : volume]}
sliderShows(a) == IF a.isMuted THEN 0 ELSE a.volume

handleVolumeChange(a, newVolume) ==
    LET set == [a EXCEPT !.elVolume = newVolume, !.volume = newVolume]
    IN  IF newVolume = 0
        THEN [set EXCEPT !.isMuted = TRUE, !.elMuted = TRUE]
        ELSE IF a.isMuted
             THEN [set EXCEPT !.isMuted = FALSE, !.elMuted = FALSE]
             ELSE set

toggleMute(a) ==
    IF a.isMuted
    THEN [a EXCEPT !.elMuted = FALSE,
                   !.elVolume = IF a.volume # 0 THEN a.volume ELSE 50,
                   !.isMuted = FALSE]
    ELSE [a EXCEPT !.elMuted = TRUE, !.isMuted = TRUE]

InitPage ==
    /\ NoPage
    /\ probe = NoProbe

\* the page renders with its new state: the placeholder while isLoading,
\* else the player, whose render loop effect requests its first callback
RenderIndex ==
    IF index'.isLoading
    THEN UNCHANGED <<mounted, raf, animationRef>>
    ELSE /\ mounted' = {1}
         /\ raf' = [raf EXCEPT ![1] = requestAnimationFrame({}, 0, cfg[1])]
         /\ animationRef' = [animationRef EXCEPT ![1] = FreshHandle({}, 0)]

\* the fetch resolves with response.ok
FetchOk ==
    /\ index.fetch = "pending"
    /\ index' = fetchThen(index)
    /\ RenderIndex
    /\ UNCHANGED <<video, canvas, docCtx, call, lastVideoWidth, lastVideoHeight,
                   workerVars, reported, cfg, ready, lastTick, audio, probe>>

\* the fetch resolves with a response that is not ok: the then handler
\* throws and the catch handler runs
FetchNotOk ==
    /\ index.fetch = "pending"
    /\ index' = fetchCaught(index, "notok")
    /\ RenderIndex
    /\ UNCHANGED <<video, canvas, docCtx, call, lastVideoWidth, lastVideoHeight,
                   workerVars, reported, cfg, ready, lastTick, audio, probe>>

\* the fetch is rejected
FetchFails ==
    /\ index.fetch = "pending"
    /\ index' = fetchCaught(index, "failed")
    /\ RenderIndex
    /\ UNCHANGED <<video, canvas, docCtx, call, lastVideoWidth, lastVideoHeight,
                   workerVars, reported, cfg, ready, lastTick, audio, probe>>

FetchSettles == FetchOk \/ FetchNotOk \/ FetchFails

\* the volume slider is moved to another value
VolumeChange ==
    \E i \in mounted, newVolume \in SliderValues(VolumeSlider) :
        /\ newVolume # sliderShows(audio[i])
        /\ audio' = [audio EXCEPT ![i] = handleVolumeChange(@, newVolume)]
        /\ UNCHANGED <<mounted, video, canvas, docCtx, call, lastVideoWidth,
                       lastVideoHeight, workerVars, reported, playerVars, index,
                       probe>>

\* the mute button is clicked
MuteClick ==
    \E i \in mounted :
        /\ audio' = [audio EXCEPT ![i] = toggleMute(@)]
        /\ UNCHANGED <<mounted, video, canvas, docCtx, call, lastVideoWidth,
                       lastVideoHeight, workerVars, reported, playerVars, index,
                       probe>>

NextPage == FetchOk \/ FetchNotOk \/ FetchFails \/ VolumeChange \/ MuteClick

\* a fetch settles: it is fulfilled or rejected
SpecPage == InitPage /\ [][NextPage]_vars /\ WF_vars(FetchSettles)

\* C29: after any toggleMute and handleVolumeChange operations the isMuted
\* state is the video element's muted flag, and while the video is not muted
\* the volume state is the video element's volume
C29_VolumeInSync ==
    \A i \in mounted :
        /\ audio[i].isMuted = audio[i].elMuted
        /\ ~audio[i].elMuted => audio[i].volume = audio[i].elVolume

\* C30: on the index page loading ends whichever way the existence check
\* settles: isLoading becomes false for good and the player is shown; an
\* error notification has been raised exactly when the response was not ok
\* or the fetch failed, and the player is shown exactly when loading is over
C30_LoadingEnds ==
    /\ [](index.toasts = IF index.fetch \in {"notok", "failed"} THEN 1 ELSE 0)
    /\ [](1 \in mounted <=> ~index.isLoading)
    /\ <>[](~index.isLoading /\ 1 \in mounted)

\* the file was missing (a response that is not ok): one notification, and
\* the player is shown all the same
C30_Witness ==
    /\ index.fetch = "notok"
    /\ ~index.isLoading
    /\ index.toasts = 1
    /\ 1 \in mounted

=============================================================================
